---- MODULE Spec2Model ----
(***************************************************************************)
(* Model of time_series.py: plot_time_series, get_gsi_fps, get_omfs and    *)
(* make_plot.  One call of plot_time_series is one behaviour; the          *)
(* arguments of the call are chosen in Init, the outcome of every file     *)
(* read is chosen by the environment when the read happens.                *)
(*                                                                         *)
(* float64 values are modelled as exact rationals plus NaN; strings that   *)
(* the code parses or formats are sequences of one-character strings.      *)
(***************************************************************************)
EXTENDS Integers, Sequences, FiniteSets, TLC

VARIABLES
    args,        \* the arguments of plot_time_series
    pc,          \* position of the call
    date_times,  \* pd.date_range(...) of line 42
    series,      \* the dict `series` of line 44, in insertion order
    label,       \* which pass of get_omfs is running: "ges" / "anl" / "none"
    fps,         \* the paths handed to the running get_omfs
    i,           \* the loop index of get_omfs (1-based)
    hourly_omf,  \* the array being filled by get_omfs
    reads,       \* every Conventional(fp) attempt, in order, with its outcome
    stdout,      \* what print() wrote
    raised,      \* the exception that left plot_time_series, or NoError
    mp,          \* the locals of make_plot: loop position, color_ind, max_val
    plot         \* the state of the pyplot figure

vars == <<args, pc, date_times, series, label, fps, i, hourly_omf, reads,
          stdout, raised, mp, plot>>

-----------------------------------------------------------------------------
(* Bounds of the model *)

\* the longest time range has MaxSpan + 1 hourly timestamps
MaxSpan == 2

-----------------------------------------------------------------------------
(* float64: NaN or a rational n/d in lowest terms, d > 0 *)

NaN == [nan |-> TRUE, n |-> 0, d |-> 1]

RECURSIVE GCD(_, _)
GCD(a, b) == IF b = 0 THEN a ELSE GCD(b, a % b)

AbsInt(x) == IF x < 0 THEN -x ELSE x

Rat(n, d) ==
    LET g == GCD(AbsInt(n), d)
    IN  [nan |-> FALSE, n |-> n \div g, d |-> d \div g]

Zero == Rat(0, 1)

isnan(x) == x.nan

\* Python's x > y on floats: every comparison with NaN is False
FloatGt(x, y) ==
    /\ ~x.nan
    /\ ~y.nan
    /\ x.n * y.d > y.n * x.d

\* -x
Neg(x) == IF x.nan THEN NaN ELSE Rat(-x.n, x.d)

\* np.abs, element-wise
npabs(data) ==
    [k \in 1..Len(data) |->
        IF data[k].nan THEN NaN ELSE Rat(AbsInt(data[k].n), data[k].d)]

\* x * 1.1
Times11(x) == IF x.nan THEN NaN ELSE Rat(11 * x.n, 10 * x.d)

\* np.nanmax: the largest non-NaN element; NaN (with a RuntimeWarning) when
\* every element is NaN.  Not defined on an empty array: the caller checks.
RECURSIVE nanmaxFrom(_, _, _)
nanmaxFrom(data, k, best) ==
    IF k > Len(data) THEN best
    ELSE IF data[k].nan THEN nanmaxFrom(data, k + 1, best)
    ELSE IF best.nan \/ FloatGt(data[k], best) THEN nanmaxFrom(data, k + 1, data[k])
    ELSE nanmaxFrom(data, k + 1, best)

nanmax(data) == nanmaxFrom(data, 1, NaN)

\* Python's built-in max(a, b): b only when b > a
pymax(a, b) == IF FloatGt(b, a) THEN b ELSE a

-----------------------------------------------------------------------------
(* datetime: a record of year, month, day and hour *)

IsLeap(Y) == (Y % 4 = 0 /\ Y % 100 # 0) \/ Y % 400 = 0

DaysInMonth(Y, m) ==
    IF m = 2 THEN (IF IsLeap(Y) THEN 29 ELSE 28)
    ELSE IF m \in {4, 6, 9, 11} THEN 30 ELSE 31

DateTime(Y, m, d, H) == [Y |-> Y, m |-> m, d |-> d, H |-> H]

\* t + one hour (the step of freq='H')
AddHour(t) ==
    IF t.H < 23 THEN [t EXCEPT !.H = t.H + 1]
    ELSE IF t.d < DaysInMonth(t.Y, t.m) THEN [t EXCEPT !.H = 0, !.d = t.d + 1]
    ELSE IF t.m < 12 THEN [t EXCEPT !.H = 0, !.d = 1, !.m = t.m + 1]
    ELSE DateTime(t.Y + 1, 1, 1, 0)

\* t1 <= t2
DtLe(t1, t2) ==
    \/ t1.Y < t2.Y
    \/ t1.Y = t2.Y /\ t1.m < t2.m
    \/ t1.Y = t2.Y /\ t1.m = t2.m /\ t1.d < t2.d
    \/ t1.Y = t2.Y /\ t1.m = t2.m /\ t1.d = t2.d /\ t1.H <= t2.H

\* a faulty date_range: the end is left out
ExclusiveRange(start, end) ==
    LET RECURSIVE upto(_)
        upto(t) == IF DtLe(end, t) THEN <<>> ELSE <<t>> \o upto(AddHour(t))
    IN  upto(start)

\* pd.date_range(start, end, freq='H'): both ends included, empty when
\* start > end
RECURSIVE date_range(_, _)
date_range(start, end) ==
    IF DtLe(start, end) THEN <<start>> \o date_range(AddHour(start), end)
    ELSE <<>>

-----------------------------------------------------------------------------
(* strings that are parsed or formatted: sequences of characters *)

Digits == <<"0", "1", "2", "3", "4", "5", "6", "7", "8", "9">>

IsDigit(c) == \E k \in 1..10 : Digits[k] = c

DigitVal(c) == (CHOOSE k \in 1..10 : Digits[k] = c) - 1

\* the value of s[from .. from + len - 1], all of them digits
RECURSIVE Num(_, _, _)
Num(s, from, len) ==
    IF len = 0 THEN 0
    ELSE 10 * Num(s, from, len - 1) + DigitVal(s[from + len - 1])

AllDigits(s, from, len) ==
    /\ from + len - 1 <= Len(s)
    /\ \A k \in from..(from + len - 1) : IsDigit(s[k])

\* the regex alternatives of the directives: %m is 1[0-2]|0[1-9]|[1-9],
\* %d is 3[01]|[12]\d|0[1-9]|[1-9], %H is 2[0-3]|[0-1]\d|\d
MatchMonth(s, from, len) ==
    /\ AllDigits(s, from, len)
    /\ IF len = 2 THEN Num(s, from, 2) \in 1..12 ELSE Num(s, from, 1) \in 1..9

MatchDay(s, from, len) ==
    /\ AllDigits(s, from, len)
    /\ IF len = 2 THEN Num(s, from, 2) \in 1..31 ELSE Num(s, from, 1) \in 1..9

MatchHour(s, from, len) ==
    /\ AllDigits(s, from, len)
    /\ IF len = 2 THEN Num(s, from, 2) \in 0..23 ELSE TRUE

\* the field widths <<lm, ld, lh>> in the order the regex engine tries them
Widths ==
    << <<2, 2, 2>>, <<2, 2, 1>>, <<2, 1, 2>>, <<2, 1, 1>>,
       <<1, 2, 2>>, <<1, 2, 1>>, <<1, 1, 2>>, <<1, 1, 1>> >>

MatchAt(s, w) ==
    /\ AllDigits(s, 1, 4)
    /\ MatchMonth(s, 5, w[1])
    /\ MatchDay(s, 5 + w[1], w[2])
    /\ MatchHour(s, 5 + w[1] + w[2], w[3])

ParseFail == [Y |-> 0, m |-> 0, d |-> 0, H |-> 0]

\* datetime.strptime(s, '%Y%m%d%H'): the first prefix match of the regex must
\* consume the whole string, and the fields must form a date; ParseFail
\* stands for the ValueError raised otherwise
strptime(s) ==
    IF \A k \in 1..8 : ~MatchAt(s, Widths[k]) THEN ParseFail
    ELSE
        LET k  == CHOOSE j \in 1..8 :
                      /\ MatchAt(s, Widths[j])
                      /\ \A h \in 1..(j - 1) : ~MatchAt(s, Widths[h])
            w  == Widths[k]
            Y  == Num(s, 1, 4)
            mo == Num(s, 5, w[1])
            dy == Num(s, 5 + w[1], w[2])
            hr == Num(s, 5 + w[1] + w[2], w[3])
        IN  IF 4 + w[1] + w[2] + w[3] # Len(s) THEN ParseFail
            ELSE IF Y < 1 \/ dy > DaysInMonth(Y, mo) THEN ParseFail
            ELSE DateTime(Y, mo, dy, hr)

\* zero-padded decimal of width len
RECURSIVE Pad(_, _)
Pad(n, len) ==
    IF len = 0 THEN <<>> ELSE Pad(n \div 10, len - 1) \o <<Digits[(n % 10) + 1]>>

\* t.strftime('%Y%m%d%H')
strftime(t) == Pad(t.Y, 4) \o Pad(t.m, 2) \o Pad(t.d, 2) \o Pad(t.H, 2)

\* s[:8] and s[-2:] of lines 83-84
DayStr(s) == SubSeq(s, 1, 8)

HourStr(s) == SubSeq(s, Len(s) - 1, Len(s))

\* the f-string of line 87, kept as its interpolated parts
FilePath(path, var, anl_ges, day_str, hour_str) ==
    [root |-> path, day_dir |-> day_str, hour_dir |-> hour_str, var |-> var,
     anl_ges |-> anl_ges, stamp |-> day_str \o hour_str]

\* a faulty get_gsi_fps: the paths come out in reverse order
ReversedFps(path, var, anl_ges, dts) ==
    [k \in 1..Len(dts) |->
        FilePath(path, var, anl_ges, DayStr(strftime(dts[Len(dts) + 1 - k])),
                 HourStr(strftime(dts[Len(dts) + 1 - k])))]

\* get_gsi_fps: one path per timestamp, in the order of date_times
get_gsi_fps(path, var, anl_ges, dts) ==
    [k \in 1..Len(dts) |->
        FilePath(path, var, anl_ges, DayStr(strftime(dts[k])),
                 HourStr(strftime(dts[k])))]

-----------------------------------------------------------------------------
(* The collaborators: the diag reader, filter_df and the files *)

Row(station_id, obs_type, omf) ==
    [station_id |-> station_id, obs_type |-> obs_type, omf_adjusted |-> omf]

\* the dataframes a diag file can hold
DataFrames ==
    { << Row("A", 187, 1), Row("A", 120, 3), Row("B", 187, 5) >>,
      << Row("B", 120, -2), Row("B", 120, -5) >> }

\* what one pass through the try block of get_omfs can meet
Outcomes ==
    { [kind |-> "not_found", df |-> <<>>],      \* Conventional raises FileNotFoundError
      [kind |-> "read_error", df |-> <<>>],     \* Conventional raises another Exception
      [kind |-> "filter_error", df |-> <<>>] }  \* filter_df raises an Exception
    \cup { [kind |-> "ok", df |-> f] : f \in DataFrames }

\* an optional filter list: None or a list
None == [given |-> FALSE, vals |-> {}]

List(S) == [given |-> TRUE, vals |-> S]

\* filter_df([df], station_ids, obs_types)['omf_adjusted']: the rows that pass
\* every given filter, in their order, reduced to the omf column
RECURSIVE filter_df(_, _, _)
filter_df(df, station_ids, obs_types) ==
    IF df = <<>> THEN <<>>
    ELSE
        LET r    == Head(df)
            keep == /\ station_ids.given => r.station_id \in station_ids.vals
                    /\ obs_types.given => r.obs_type \in obs_types.vals
            rest == filter_df(Tail(df), station_ids, obs_types)
        IN  IF keep THEN <<Rat(r.omf_adjusted, 1)>> \o rest ELSE rest

RECURSIVE SumNum(_)
SumNum(vals) == IF vals = <<>> THEN 0 ELSE Head(vals).n + SumNum(Tail(vals))

\* a faulty mean: an empty series averages to 0
ZeroMean(vals) == IF vals = <<>> THEN Zero ELSE Rat(SumNum(vals), Len(vals))

\* pandas Series.mean(): NaN for an empty series (the omf values of the
\* files are whole numbers, so the sum of the numerators is the sum)
mean(vals) == IF vals = <<>> THEN NaN ELSE Rat(SumNum(vals), Len(vals))

\* np.zeros(n)
zeros(n) == [k \in 1..n |-> Zero]

-----------------------------------------------------------------------------
(* The arguments of the call *)

StrArg(s) == [isstr |-> TRUE, str |-> s, dt |-> ParseFail]

DtArg(t) == [isstr |-> FALSE, str |-> <<>>, dt |-> t]

RECURSIVE AddHours(_, _)
AddHours(t, k) == IF k = 0 THEN t ELSE AddHours(AddHour(t), k - 1)

\* the first hour of the ranges: the last hours of a year, so that the
\* ranges cross a day, a month and a year
T0 == DateTime(2023, 12, 31, 22)

BadStrings ==
    { <<"2", "0", "2", "3", "1", "2", "3", "1", "2", "4">>,    \* hour 24
      <<"2", "0", "2", "3", "0", "2", "3", "1", "0", "0">> }   \* 31 February

\* parses as 2023-12-31 01h, before T0
EarlyString == <<"2", "0", "2", "3", "1", "2", "3", "1", "1">>

StartArgs == {StrArg(strftime(T0))} \cup {StrArg(b) : b \in BadStrings}

EndArgs ==
    {StrArg(strftime(AddHours(T0, k))) : k \in 0..MaxSpan}
    \cup {DtArg(AddHour(T0)), StrArg(EarlyString)}
    \cup {StrArg(b) : b \in BadStrings}

\* the filter arguments: each of the two lists given or not
FilterArgs ==
    { <<None, None>>, <<List({"A"}), None>>, <<None, List({187})>>,
      <<List({"A"}), List({187})>> }

ArgSets ==
    { [ path        |-> "root",
        var         |-> var,
        anl_ges     |-> anl_ges,
        s_time      |-> s_time,
        f_time      |-> f_time,
        station_ids |-> flt[1],
        obs_types   |-> flt[2] ] :
      var \in {"t", "u"}, anl_ges \in {"anl", "ges", "both", "xyz"},
      s_time \in StartArgs, f_time \in EndArgs, flt \in FilterArgs }

NoError == [exc |-> "none", at |-> "none"]

Error(exc, at) == [exc |-> exc, at |-> at]

NoPlot ==
    [figure |-> FALSE, artists |-> <<>>, ylim |-> <<>>, ylabel |-> "",
     title |-> "", legend |-> <<>>, shown |-> FALSE]

NoLocals == [k |-> 0, color_ind |-> 0, max_val |-> Zero]

Init ==
    /\ args \in ArgSets
    /\ pc = "check_mode"
    /\ date_times = <<>>
    /\ series = <<>>
    /\ label = "none"
    /\ fps = <<>>
    /\ i = 0
    /\ hourly_omf = <<>>
    /\ reads = <<>>
    /\ stdout = <<>>
    /\ raised = NoError
    /\ mp = NoLocals
    /\ plot = NoPlot

-----------------------------------------------------------------------------
(* plot_time_series *)

\* a faulty ModeAllowed: the check of line 33 is missing
AnyMode(m) == TRUE

\* line 33
ModeAllowed(m) == m \in {"anl", "ges", "both"}

\* lines 32-34
CheckMode ==
    /\ pc = "check_mode"
    /\ IF ModeAllowed(args.anl_ges)
       THEN pc' = "convert_times" /\ raised' = raised
       ELSE pc' = "done" /\ raised' = Error("ValueError", "check_mode")
    /\ UNCHANGED <<args, date_times, series, label, fps, i, hourly_omf, reads,
                   stdout, mp, plot>>

\* one element of the list comprehension of lines 37-39
ToDateTime(t) == IF t.isstr THEN strptime(t.str) ELSE t.dt

\* lines 36-44
ConvertTimes ==
    /\ pc = "convert_times"
    /\ LET s == ToDateTime(args.s_time)
           f == ToDateTime(args.f_time)
       IN  IF s = ParseFail \/ f = ParseFail
           THEN /\ pc' = "done"
                /\ raised' = Error("ValueError", "strptime")
                /\ date_times' = date_times
           ELSE /\ pc' = "ges_branch"
                /\ raised' = raised
                /\ date_times' = date_range(s, f)
    /\ UNCHANGED <<args, series, label, fps, i, hourly_omf, reads, stdout, mp,
                   plot>>

\* the conditions of lines 47 and 52
WantsGes(m) == m = "both" \/ m = "ges"

\* a faulty WantsAnl: 'both' is forgotten in line 52
OnlyAnl(m) == m = "anl"

WantsAnl(m) == m = "both" \/ m = "anl"

\* lines 47-49: build the paths and enter get_omfs (line 141)
GesBranch ==
    /\ pc = "ges_branch"
    /\ IF WantsGes(args.anl_ges)
       THEN /\ fps' = get_gsi_fps(args.path, args.var, "ges", date_times)
            /\ hourly_omf' = zeros(Len(date_times))
            /\ i' = 1
            /\ label' = "ges"
            /\ pc' = "get_omfs"
       ELSE /\ pc' = "anl_branch"
            /\ UNCHANGED <<fps, hourly_omf, i, label>>
    /\ UNCHANGED <<args, date_times, series, reads, stdout, raised, mp, plot>>

\* lines 52-54: build the paths and enter get_omfs (line 141)
AnlBranch ==
    /\ pc = "anl_branch"
    /\ IF WantsAnl(args.anl_ges)
       THEN /\ fps' = get_gsi_fps(args.path, args.var, "anl", date_times)
            /\ hourly_omf' = zeros(Len(date_times))
            /\ i' = 1
            /\ label' = "anl"
            /\ pc' = "get_omfs"
       ELSE /\ pc' = "make_plot"
            /\ UNCHANGED <<fps, hourly_omf, i, label>>
    /\ UNCHANGED <<args, date_times, series, reads, stdout, raised, mp, plot>>

-----------------------------------------------------------------------------
(* get_omfs *)

\* a faulty StoreNone: the position keeps the 0 of np.zeros
StoreZero(arr, k) == [arr EXCEPT ![k] = Zero]

\* line 156: hourly_omf[i] = None stores NaN in the float array

StoreNone(arr, k) == [arr EXCEPT ![k] = NaN]

\* lines 149-150
Notice(vals) ==
    IF Len(vals) = 0 THEN <<"Filter combination yields no results">> ELSE <<>>

\* a faulty Tolerated: every exception is swallowed
AllTolerated(kind) == TRUE

\* whether the except clauses of lines 154-159 let the loop go on
Tolerated(kind) == kind = "ok" \/ kind = "not_found"

\* lines 143-159: one iteration of the loop
ReadFile ==
    /\ pc = "get_omfs"
    /\ i <= Len(fps)
    /\ \E o \in Outcomes :
         LET omf_values == filter_df(o.df, args.station_ids, args.obs_types)
         IN  /\ reads' = Append(reads, [fp |-> fps[i], label |-> label,
                                        index |-> i, outcome |-> o])
             /\ IF o.kind = "ok"
                THEN /\ stdout' = stdout \o Notice(omf_values)
                     /\ hourly_omf' = [hourly_omf EXCEPT ![i] = mean(omf_values)]
                ELSE IF o.kind = "not_found"
                THEN /\ stdout' = stdout
                     /\ hourly_omf' = StoreNone(hourly_omf, i)
                ELSE /\ stdout' = Append(stdout, "Unknown error occurred")
                     /\ hourly_omf' = hourly_omf
             /\ IF Tolerated(o.kind)
                THEN /\ i' = i + 1
                     /\ pc' = pc
                     /\ raised' = raised
                ELSE /\ i' = i
                     /\ pc' = "done"
                     /\ raised' = Error("Exception", "get_omfs")
    /\ UNCHANGED <<args, date_times, series, label, fps, mp, plot>>

\* line 161, and the store of line 50 or 55
ReturnOmfs ==
    /\ pc = "get_omfs"
    /\ i > Len(fps)
    /\ series' = Append(series, [key |-> label, data |-> hourly_omf])
    /\ pc' = IF label = "ges" THEN "anl_branch" ELSE "make_plot"
    /\ UNCHANGED <<args, date_times, label, fps, i, hourly_omf, reads, stdout,
                   raised, mp, plot>>

-----------------------------------------------------------------------------
(* make_plot *)

\* lines 176-180
units_mapping ==
    [v \in {"t", "ps", "q"} |->
        CASE v = "t"  -> <<"Temperature", "Degrees Fahrenheit">>
          [] v = "ps" -> <<"Surface Pressure", "Pascals">>
          [] v = "q"  -> <<"Specfic Humidity", "G Water Vapor per KG of Air">>]

\* a faulty KnownVar: the lookup never fails
AnyVar(var) == TRUE

\* units_mapping.get(var) is None for any other var, and None[1] raises
KnownVar(var) == var \in DOMAIN units_mapping

\* line 190
colors == <<"b", "g", "c", "m", "y", "k">>

\* lines 175-192
MakePlotBegin ==
    /\ pc = "make_plot"
    /\ IF KnownVar(args.var)
       THEN /\ plot' = [plot EXCEPT !.figure = TRUE]
            /\ mp' = [k |-> 1, color_ind |-> 0, max_val |-> Zero]
            /\ pc' = "plot_loop"
            /\ raised' = raised
       ELSE /\ pc' = "done"
            /\ raised' = Error("TypeError", "units_mapping")
            /\ UNCHANGED <<plot, mp>>
    /\ UNCHANGED <<args, date_times, series, label, fps, i, hourly_omf, reads,
                   stdout>>

\* line 199: the positions of data that hold NaN, in order
RECURSIVE NanIndices(_, _)
NanIndices(data, k) ==
    IF k > Len(data) THEN <<>>
    ELSE IF isnan(data[k]) THEN <<k>> \o NanIndices(data, k + 1)
    ELSE NanIndices(data, k + 1)

\* line 195
LineArtist(key, data, color) ==
    [kind |-> "line", label |-> key, color |-> color, x |-> date_times,
     y |-> data]

\* lines 200-201: plt.scatter(times[nan_indices], np.zeros(sum(nan_indices)))
ScatterArtist(data) ==
    LET idx == NanIndices(data, 1)
    IN  [kind |-> "scatter", label |-> "No Data", color |-> "red",
         x |-> [k \in 1..Len(idx) |-> date_times[idx[k]]],
         y |-> zeros(Len(idx))]

\* line 203
NextMax(data, max_val) == pymax(Times11(nanmax(npabs(data))), max_val)

\* lines 194-203: one iteration of the loop over series.items()
PlotSeries ==
    /\ pc = "plot_loop"
    /\ mp.k <= Len(series)
    /\ LET key  == series[mp.k].key
           data == series[mp.k].data
       IN  /\ plot' = [plot EXCEPT !.artists =
                          @ \o << LineArtist(key, data, colors[mp.color_ind + 1]),
                                  ScatterArtist(data) >>]
           /\ IF Len(data) = 0
              THEN \* np.nanmax of a zero-size array raises
                   /\ pc' = "done"
                   /\ raised' = Error("ValueError", "nanmax")
                   /\ mp' = [mp EXCEPT !.color_ind = (@ + 1) % Len(colors)]
              ELSE /\ pc' = pc
                   /\ raised' = raised
                   /\ mp' = [k         |-> mp.k + 1,
                             color_ind |-> (mp.color_ind + 1) % Len(colors),
                             max_val   |-> NextMax(data, mp.max_val)]
    /\ UNCHANGED <<args, date_times, series, label, fps, i, hourly_omf, reads,
                   stdout>>

\* line 206
ZeroLine ==
    [kind |-> "axhline", label |-> "Zero", color |-> "r", x |-> <<>>,
     y |-> <<Zero>>]

\* line 215: plt.legend() makes one entry per labelled artist
LegendOf(artists) == [k \in 1..Len(artists) |-> artists[k].label]

\* lines 205-220; plt.ylim raises ValueError when a limit is NaN
PlotFinish ==
    /\ pc = "plot_loop"
    /\ mp.k > Len(series)
    /\ pc' = "done"
    /\ LET drawn == Append(plot.artists, ZeroLine)
       IN  IF isnan(mp.max_val)
           THEN /\ raised' = Error("ValueError", "ylim")
                /\ plot' = [plot EXCEPT !.artists = drawn]
           ELSE /\ raised' = raised
                /\ plot' = [plot EXCEPT
                              !.artists = drawn,
                              !.ylim    = <<Neg(mp.max_val), mp.max_val>>,
                              !.ylabel  = units_mapping[args.var][2],
                              !.title   = units_mapping[args.var][1],
                              !.legend  = LegendOf(drawn),
                              !.shown   = TRUE]
    /\ UNCHANGED <<args, date_times, series, label, fps, i, hourly_omf, reads,
                   stdout, mp>>

-----------------------------------------------------------------------------

Next ==
    \/ CheckMode
    \/ ConvertTimes
    \/ GesBranch
    \/ AnlBranch
    \/ ReadFile
    \/ ReturnOmfs
    \/ MakePlotBegin
    \/ PlotSeries
    \/ PlotFinish

Spec == Init /\ [][Next]_vars

-----------------------------------------------------------------------------
(* Vocabulary of the properties *)

\* the number of whole hours from 0001-01-01 00h to t, by calendar arithmetic
DaysBeforeYear(Y) ==
    365 * (Y - 1) + ((Y - 1) \div 4) - ((Y - 1) \div 100) + ((Y - 1) \div 400)

RECURSIVE DaysBeforeMonth(_, _)
DaysBeforeMonth(Y, m) ==
    IF m = 1 THEN 0 ELSE DaysBeforeMonth(Y, m - 1) + DaysInMonth(Y, m - 1)

HourNumber(t) ==
    (DaysBeforeYear(t.Y) + DaysBeforeMonth(t.Y, t.m) + t.d - 1) * 24 + t.H

\* the number of hourly timestamps in [start, end] for every pair of time
\* arguments; -1 when one of them does not parse or start > end
HoursInRange ==
    [s \in StartArgs, f \in EndArgs |->
        LET start == ToDateTime(s)
            end   == ToDateTime(f)
        IN  IF start # ParseFail /\ end # ParseFail /\ DtLe(start, end)
            THEN HourNumber(end) - HourNumber(start) + 1
            ELSE -1]

\* the timestamps a range can hold, and their %Y%m%d%H form
RangeTimes == {AddHours(T0, k) : k \in 0..MaxSpan}

StampOf == [t \in RangeTimes |-> strftime(t)]

\* the omf values that pass the filters of the call, for every dataframe
FilteredOf ==
    [df \in DataFrames \cup {<<>>}, flt \in FilterArgs |->
        filter_df(df, flt[1], flt[2])]

HasKey(key) == \E k \in 1..Len(series) : series[k].key = key

\* the array that holds the values of the pass `key`: the stored series, or
\* the array of the running (or aborted) pass
ArrayOf(key) ==
    IF HasKey(key)
    THEN series[CHOOSE k \in 1..Len(series) : series[k].key = key].data
    ELSE hourly_omf

Filtered(r) == FilteredOf[r.outcome.df, <<args.station_ids, args.obs_types>>]

IsLast(k) == k = Len(reads)

\* v is exactly total / count
IsMeanOf(v, vals) ==
    /\ ~v.nan
    /\ v.n * Len(vals) = SumNum(vals) * v.d

\* the value a position must hold, from the outcome of its own read alone
HoldsValueOf(v, r) ==
    LET vals == Filtered(r)
    IN  CASE r.outcome.kind = "not_found" -> v = NaN
          [] r.outcome.kind = "ok" /\ vals = <<>> -> v = NaN
          [] r.outcome.kind = "ok" /\ vals # <<>> -> IsMeanOf(v, vals)
          [] OTHER -> TRUE

\* read k raised nothing out of get_omfs, and the loop has moved on to the
\* position after it (or has finished the pass with it)
WentOn(k) ==
    IsLast(k) =>
        /\ raised.at # "get_omfs"
        /\ pc \in {"get_omfs", "anl_branch", "make_plot", "plot_loop", "done"}
        /\ IF pc = "get_omfs" /\ label = reads[k].label
           THEN i = reads[k].index + 1
           ELSE reads[k].index = Len(date_times)

\* make_plot was called
PlotterInvoked ==
    \/ pc \in {"plot_loop"}
    \/ pc = "done" /\ raised.at \in {"none", "units_mapping", "nanmax", "ylim"}

SomeFinite == \E k \in 1..Len(series) : \E j \in 1..Len(series[k].data) :
                  ~series[k].data[j].nan

\* C1: every series get_omfs returns to plot_time_series has one position per
\* hourly timestamp of [start, end], both ends included, whatever the files
\* turned out to be
C1_SeriesLength ==
    LET hours == HoursInRange[args.s_time, args.f_time]
    IN  hours # -1 =>
            /\ \A k \in 1..Len(series) : Len(series[k].data) = hours
            /\ pc = "get_omfs" => Len(hourly_omf) = hours /\ Len(fps) = hours

\* a full-length series that met a missing file, an empty filter result and
\* a file with data
C1_Witness ==
    /\ Len(series) = 1
    /\ Len(series[1].data) = MaxSpan + 1
    /\ \E k \in 1..Len(reads) : reads[k].outcome.kind = "not_found"
    /\ \E k \in 1..Len(reads) :
          reads[k].outcome.kind = "ok" /\ Filtered(reads[k]) = <<>>
    /\ \E j \in 1..Len(series[1].data) : ~series[1].data[j].nan

\* C2: a file-not-found at position i leaves NaN at position i, raises
\* nothing, the loop goes on to position i + 1, and every other position holds
\* the value of its own read
C2_NotFoundTolerated ==
    \A k \in 1..Len(reads) :
        /\ reads[k].outcome.kind = "not_found" =>
              /\ ArrayOf(reads[k].label)[reads[k].index] = NaN
              /\ WentOn(k)
        /\ HoldsValueOf(ArrayOf(reads[k].label)[reads[k].index], reads[k])

\* a missing file in the middle of a pass, with data read after it
C2_Witness ==
    \E k \in 1..Len(reads) : \E h \in 1..Len(reads) :
        /\ reads[k].outcome.kind = "not_found"
        /\ reads[h].label = reads[k].label
        /\ reads[h].index > reads[k].index
        /\ reads[h].outcome.kind = "ok"
        /\ ~ArrayOf(reads[h].label)[reads[h].index].nan

\* C3: position i of a series holds the mean of the filtered omf values of
\* the file built for the i-th timestamp and for the label of the series
C3_MeanOfOwnFile ==
    \A k \in 1..Len(reads) :
        LET r    == reads[k]
            vals == Filtered(r)
        IN  /\ r.index \in 1..Len(date_times)
            /\ r.fp.stamp = StampOf[date_times[r.index]]
            /\ r.fp.day_dir \o r.fp.hour_dir = r.fp.stamp
            /\ r.fp.anl_ges = r.label
            /\ r.fp.var = args.var
            /\ (r.outcome.kind = "ok" /\ vals # <<>>) =>
                  IsMeanOf(ArrayOf(r.label)[r.index], vals)

\* files at the first and the third hour only: [mean, NaN, mean]
C3_Witness ==
    /\ Len(series) >= 1
    /\ Len(series[1].data) >= 3
    /\ series[1].data[1] = Rat(2, 1)
    /\ series[1].data[2] = NaN
    /\ series[1].data[3] = Rat(2, 1)
    /\ reads[1].outcome.kind = "ok"
    /\ reads[2].outcome.kind = "not_found"
    /\ reads[3].outcome.kind = "ok"
    /\ reads[3].fp.hour_dir = <<"0", "0">>

\* C4: an error other than file-not-found is logged and re-raised: the call
\* ends there, no series of the aborted pass is stored, no later file is
\* read, after a failed 'ges' pass no 'anl' file is read, and the plotter is
\* not called
C4_OtherErrorAborts ==
    \A k \in 1..Len(reads) :
        reads[k].outcome.kind \in {"read_error", "filter_error"} =>
            /\ IsLast(k)
            /\ pc = "done"
            /\ raised = Error("Exception", "get_omfs")
            /\ stdout # <<>> /\ stdout[Len(stdout)] = "Unknown error occurred"
            /\ ~HasKey(reads[k].label)
            /\ reads[k].label = "ges" => \A h \in 1..Len(reads) : reads[h].label = "ges"
            /\ ~PlotterInvoked
            /\ plot = NoPlot
            /\ mp = NoLocals

\* a 'ges' pass of mode 'both' that failed after a good read
C4_Witness ==
    /\ args.anl_ges = "both"
    /\ Len(reads) >= 2
    /\ reads[Len(reads)].label = "ges"
    /\ reads[Len(reads)].outcome.kind = "filter_error"
    /\ reads[Len(reads)].index < Len(date_times)
    /\ reads[1].outcome.kind = "ok"
    /\ pc = "done"

\* the start or end string is one that the fixed format rejects
BadTime(t) == t.isstr /\ t.str \in BadStrings

\* C5: with a mode outside {anl, ges, both} or a start or end string that
\* does not parse, the call ends in a ValueError without any read and without
\* any plotting call
C5_ValidationFailsFast ==
    (args.anl_ges \notin {"anl", "ges", "both"}
        \/ BadTime(args.s_time) \/ BadTime(args.f_time)) =>
        /\ reads = <<>>
        /\ plot = NoPlot
        /\ pc \in {"check_mode", "convert_times", "done"}
        /\ pc = "done" =>
              /\ raised.exc = "ValueError"
              /\ raised.at \in {"check_mode", "strptime"}

\* a call that ended in the parse error of a valid mode
C5_Witness ==
    /\ pc = "done"
    /\ args.anl_ges = "both"
    /\ ~BadTime(args.s_time)
    /\ BadTime(args.f_time)
    /\ raised = Error("ValueError", "strptime")

RECURSIVE CountOf(_, _)
CountOf(x, seq) ==
    IF seq = <<>> THEN 0
    ELSE (IF Head(seq) = x THEN 1 ELSE 0) + CountOf(x, Tail(seq))

EmptyReads ==
    {k \in 1..Len(reads) : reads[k].outcome.kind = "ok" /\ Filtered(reads[k]) = <<>>}

\* C6: a file whose rows are all filtered out gives a notice, raises nothing,
\* leaves NaN and not 0 at its position, and the loop goes on
C6_EmptyFilterIsNaN ==
    LET empties == EmptyReads
    IN  /\ CountOf("Filter combination yields no results", stdout) =
              Cardinality(empties)
        /\ \A k \in empties :
              /\ ArrayOf(reads[k].label)[reads[k].index] = NaN
              /\ ArrayOf(reads[k].label)[reads[k].index] # Zero
              /\ WentOn(k)

\* an empty filter result on a file that has rows, followed by another read
C6_Witness ==
    \E k \in EmptyReads :
        /\ reads[k].outcome.df # <<>>
        /\ k < Len(reads)
        /\ reads[k + 1].label = reads[k].label

\* C7: the labels handed to make_plot are those of the mode, 'ges' before
\* 'anl'; each series has the length of the timestamp axis and holds, at every
\* position, the value of the read of its own label's file
C7_LabelsByMode ==
    (pc = "make_plot" \/ PlotterInvoked) =>
        /\ [k \in 1..Len(series) |-> series[k].key] =
              CASE args.anl_ges = "both" -> <<"ges", "anl">>
                [] args.anl_ges = "ges"  -> <<"ges">>
                [] args.anl_ges = "anl"  -> <<"anl">>
        /\ \A k \in 1..Len(series) :
              /\ Len(series[k].data) = Len(date_times)
              /\ \A j \in 1..Len(date_times) :
                    \E h \in 1..Len(reads) :
                        /\ reads[h].label = series[k].key
                        /\ reads[h].index = j
                        /\ reads[h].fp.anl_ges = series[k].key
                        /\ HoldsValueOf(series[k].data[j], reads[h])

\* mode 'both' handed over with two series that differ
C7_Witness ==
    /\ pc = "make_plot"
    /\ args.anl_ges = "both"
    /\ Len(series) = 2
    /\ Len(date_times) = MaxSpan + 1
    /\ series[1].data # series[2].data
    /\ ~series[1].data[1].nan
    /\ ~series[2].data[1].nan

\* the largest absolute finite value of all series (Zero when there is none)
MaxAbsFinite ==
    LET vals == {series[k].data[j] : k \in 1..Len(series), j \in 1..Len(date_times)}
        abs  == {Rat(AbsInt(v.n), v.d) : v \in {w \in vals : ~w.nan}}
    IN  IF abs = {} THEN Zero
        ELSE CHOOSE a \in abs : \A b \in abs : ~FloatGt(b, a)

\* C8: when some value is finite, make_plot sets the vertical axis to
\* [-m, m] with m = 1.1 times the largest absolute finite value of all series
C8_AxisBound ==
    (pc = "done" /\ raised.at \in {"none", "ylim"} /\ KnownVar(args.var)
        /\ SomeFinite) =>
        plot.ylim = <<Neg(Times11(MaxAbsFinite)), Times11(MaxAbsFinite)>>

\* the artists of series k: its line and its scatter
LineOf(k) == plot.artists[2 * k - 1]

ScatterOf(k) == plot.artists[2 * k]

\* C9: for each series the highlight marks exactly the NaN positions, at
\* y = 0, and the legend of the rendered chart has one 'No Data' entry
C9_NoDataMarks ==
    plot.shown =>
        /\ \A k \in 1..Len(series) :
              /\ ScatterOf(k).kind = "scatter"
              /\ {ScatterOf(k).x[h] : h \in 1..Len(ScatterOf(k).x)} =
                    {date_times[j] : j \in {n \in 1..Len(date_times) :
                                               series[k].data[n].nan}}
              /\ Len(ScatterOf(k).x) =
                    Cardinality({n \in 1..Len(date_times) : series[k].data[n].nan})
              /\ \A h \in 1..Len(ScatterOf(k).y) : ScatterOf(k).y[h] = Zero
              /\ Len(ScatterOf(k).y) = Len(ScatterOf(k).x)
        /\ CountOf("No Data", plot.legend) = 1

\* C10: with a var outside {t, ps, q} no figure is ever created and nothing
\* is drawn; a call that reaches make_plot ends in the error of the lookup
C10_UnknownVarFails ==
    args.var \notin {"t", "ps", "q"} =>
        /\ plot = NoPlot
        /\ mp = NoLocals
        /\ pc # "plot_loop"
        /\ pc = "done" => raised # NoError
        /\ PlotterInvoked => raised = Error("TypeError", "units_mapping")

\* an unknown var whose series were all extracted before make_plot failed
C10_Witness ==
    /\ args.var = "u"
    /\ pc = "done"
    /\ raised = Error("TypeError", "units_mapping")
    /\ Len(series) = 2
    /\ SomeFinite

====
